---------------------------- MODULE Spec2Model ----------------------------
(***************************************************************************)
(* Model of the currency subsystem of guru-lens                            *)
(* (server/services/currencyDetector.py): the process-wide exchange-rate   *)
(* cache, the live lookup with its fallback table, and the public          *)
(* operations built on them.                                               *)
(*                                                                         *)
(* Strings are sequences of one-character strings, so that str.upper() is  *)
(* computed letter by letter.  Rates and money amounts are integers in     *)
(* millionths (1.0 is 1000000); a value v converted at rate r is v * r.    *)
(***************************************************************************)
EXTENDS Integers, Sequences, FiniteSets, TLC

VARIABLES
    cache,       \* _EXCHANGE_RATE_CACHE: uppercase code -> rate
    origin,      \* history: code -> "live" / "fallback", the branch that produced cache[code]
    calls,       \* history: code -> number of provider queries since the last clear
    first,       \* history: code -> rate the first resolution since the last clear returned
    preClear,    \* history: the codes the cache held when it was last cleared
    lastOp,      \* the public operation that ran last
    lastArg,     \* its currency-code argument
    lastValue,   \* its value argument (convert_to_usd), else 0
    lastRaised,  \* TRUE when an exception propagated out of it
    lastRate,    \* the rate it resolved (0 when it resolved none)
    lastRet,     \* the number it returned (0 when it returned none)
    lastNeeds,   \* the boolean needs_currency_conversion computed in it
    lastInfo,    \* the dictionary get_currency_info_dict returned
    lastFx,      \* what it touched: "cacheRead", "cacheWrite", "provider"
    lastResp,    \* the provider's response to its lookup, NoResponse when none was made
    lastCode,    \* the code detect_financial_currency returned, <<>> when it did not run
    described,   \* history: code -> conversionRate of the descriptor built since the last clear
    pc,          \* overlapping calls: each worker's position in get_live_exchange_rate
    wKey,        \* overlapping calls: the code the worker is resolving
    wResp,       \* overlapping calls: the provider's response the worker holds
    wRet,        \* overlapping calls: the rate the worker's last call returned
    wMiss,       \* overlapping calls: TRUE when the worker's last call missed the cache
    cnInput,     \* clean_nan_values: the object it is given
    cnOutput,    \* clean_nan_values: what it returned
    cnTwice,     \* clean_nan_values: what it returned for its own result
    cnPc,        \* clean_nan_values: "off", "start", "cleaned", "twice"
    gsPc,        \* get_stock_data: "off", "annual", "quarterly", "balance", "done"
    gsTicker,    \* get_stock_data: what the provider holds for the symbol
    gsRate,      \* get_stock_data: the local conversion_rate, Unbound until assigned
    gsResult,    \* get_stock_data: the result dictionary being filled
    bArg,        \* yfinanceWrapper_v2 main: the comma-separated parts of sys.argv[1]
    bSymbols,    \* yfinanceWrapper_v2 main: the symbols to process
    bIdx,        \* yfinanceWrapper_v2 main: the position of the current symbol
    bPc,         \* get_basic_stock_data: the line the call has reached
    bAlarm,      \* the pending SIGALRM: NoAlarm, or the position of the symbol
                 \* whose call armed it
    bRet,        \* get_basic_stock_data: the mapping the last call returned
    bResults     \* yfinanceWrapper_v2 main: the results dictionary

seqVars == <<cache, origin, calls, first, preClear, lastOp, lastArg, lastValue,
             lastRaised, lastRate, lastRet, lastNeeds, lastInfo, lastFx, lastResp,
             lastCode, described>>
stepVars == <<pc, wKey, wResp, wRet, wMiss>>
cleanVars == <<cnInput, cnOutput, cnTwice, cnPc>>
\* the variables the currency operations do not touch
stockVars == <<gsPc, gsTicker, gsRate, gsResult>>
basicVars == <<bArg, bSymbols, bIdx, bPc, bAlarm, bRet, bResults>>
extVars == <<cleanVars, stockVars, basicVars>>
vars == <<cache, origin, calls, first, preClear, lastOp, lastArg, lastValue,
          lastRaised, lastRate, lastRet, lastNeeds, lastInfo, lastFx, lastResp,
          lastCode, described,
          pc, wKey, wResp, wRet, wMiss,
          cnInput, cnOutput, cnTwice, cnPc,
          gsPc, gsTicker, gsRate, gsResult,
          bArg, bSymbols, bIdx, bPc, bAlarm, bRet, bResults>>

-----------------------------------------------------------------------------
(* Bounds *)

\* A provider lookup is not started for a code already queried MaxCalls times
\* since the last clear (the program itself never reaches the cap).
MaxCalls == 2

\* Number of overlapping callers in the stepwise specification.
NumWorkers == 2

\* Nesting depth of the objects given to clean_nan_values.
MaxDepth == 2

\* sys.argv[1] names at most MaxSymbols symbols
MaxSymbols == 2

-----------------------------------------------------------------------------
(* Strings and numbers *)

\* 1.0 in millionths
ONE == 1000000

LowerLetters == <<"a","b","c","d","e","f","g","h","i","j","k","l","m",
                  "n","o","p","q","r","s","t","u","v","w","x","y","z">>
UpperLetters == <<"A","B","C","D","E","F","G","H","I","J","K","L","M",
                  "N","O","P","Q","R","S","T","U","V","W","X","Y","Z">>

LowerSet == {LowerLetters[i] : i \in DOMAIN LowerLetters}

\* the uppercase letter of each lowercase letter
UpperMap ==
    [c \in LowerSet |-> UpperLetters[CHOOSE i \in DOMAIN LowerLetters : LowerLetters[i] = c]]

UpperChar(c) == IF c \in LowerSet THEN UpperMap[c] ELSE c

\* a mutant of str_upper: the code is used as given
str_upper_identity(s) == s

\* str.upper()
str_upper(s) == [i \in DOMAIN s |-> UpperChar(s[i])]

USD == <<"U","S","D">>
CNY == <<"C","N","Y">>
HKD == <<"H","K","D">>
JPY == <<"J","P","Y">>
EUR == <<"E","U","R">>
GBP == <<"G","B","P">>
INR == <<"I","N","R">>
SGD == <<"S","G","D">>
AUD == <<"A","U","D">>
CAD == <<"C","A","D">>
CHF == <<"C","H","F">>
SEK == <<"S","E","K">>
NZD == <<"N","Z","D">>
MXN == <<"M","X","N">>
BRL == <<"B","R","L">>
ZAR == <<"Z","A","R">>

\* FALLBACK_CURRENCY_RATES, each rate rounded to millionths
FALLBACK_CURRENCY_RATES ==
    (CNY :> 142857) @@ (HKD :> 128205) @@ (JPY :> 6667) @@ (EUR :> 1100000) @@
    (GBP :> 1270000) @@ (INR :> 12048) @@ (SGD :> 740741) @@ (AUD :> 645161) @@
    (CAD :> 724638) @@ (CHF :> 1100000) @@ (SEK :> 95238) @@ (NZD :> 571429) @@
    (MXN :> 58824) @@ (BRL :> 200000) @@ (ZAR :> 55556)

-----------------------------------------------------------------------------
(* Inputs *)

Str(s) == [kind |-> "str", chars |-> s]
NoneValue == [kind |-> "None", chars |-> <<>>]
IntValue == [kind |-> "int", chars |-> <<>>]

\* the currency codes callers pass: USD and two other codes in several
\* letter cases, a code the fallback table lacks, null and a non-text value
CodeInputs ==
    { Str(USD), Str(<<"u","s","d">>), Str(<<"U","s","d">>),
      Str(CNY), Str(<<"c","n","y">>),
      Str(<<"X","Y","Z">>), Str(<<"x","y","Z">>),
      NoneValue, IntValue }

\* the amounts callers convert
ValueInputs == {-3, 0, 1000}

\* what ticker.history(period='1d') can do when it answers
NoResponse == [kind |-> "none", close |-> 0]
Closes == {-139000, 0, 139000, ONE}
Responses ==
    { [kind |-> "raises", close |-> 0],      \* network error, timeout raised by the library
      [kind |-> "empty", close |-> 0],       \* data.empty
      [kind |-> "no_close", close |-> 0],    \* unrecognized shape: data['Close'] raises
      [kind |-> "nan_close", close |-> 0] }  \* the most recent close is NaN
    \cup { [kind |-> "series", close |-> p] : p \in Closes }

-----------------------------------------------------------------------------
(* The rate cache and the live lookup *)

EmptyCache == <<>>

\* the program state an operation reads and writes
State == [cache |-> cache, origin |-> origin, calls |-> calls]

\* a mutant of CacheHit: the cache is never consulted
CacheHitNever(code, c) == FALSE

\* `currency_code in _EXCHANGE_RATE_CACHE`
CacheHit(code, c) == code \in DOMAIN c

\* a mutant of Put: the assignment rebinds the mapping to the one new entry
PutReplacing(f, code, v) == [x \in {code} |-> v]

\* `_EXCHANGE_RATE_CACHE[currency_code] = rate` (also the history maps)
Put(f, code, v) == [x \in DOMAIN f \cup {code} |-> IF x = code THEN v ELSE f[x]]

\* FALLBACK_CURRENCY_RATES.get(currency_code, 1.0)
FallbackGet(code) ==
    IF code \in DOMAIN FALLBACK_CURRENCY_RATES
    THEN FALLBACK_CURRENCY_RATES[code]
    ELSE ONE

\* a mutant of LookupRate: the latest close is used without the `> 0` test
LookupRateUnchecked(code, resp) ==
    IF resp.kind = "series" THEN resp.close ELSE FallbackGet(code)

\* the rate the body of the try statement, or its handler, ends up with
LookupRate(code, resp) ==
    IF resp.kind = "series"
    THEN IF resp.close > 0 THEN resp.close ELSE FallbackGet(code)
    ELSE IF resp.kind = "nan_close"
    THEN FallbackGet(code)          \* NaN > 0 is False
    ELSE IF resp.kind = "empty"
    THEN FallbackGet(code)          \* the else branch of `if not data.empty`
    ELSE FallbackGet(code)          \* the except handler

\* which expression produced that rate
LookupOrigin(code, resp) ==
    IF resp.kind = "series" /\ resp.close > 0 THEN "live" ELSE "fallback"

NoInfo == [reportingCurrency |-> <<>>, conversionApplied |-> FALSE,
           conversionRate |-> 0, exchangeRateSource |-> "not built"]

\* an operation's outcome: what it returned or raised, and the state it left
Raised(st) ==
    [raised |-> TRUE, rate |-> 0, ret |-> 0, needs |-> FALSE, info |-> NoInfo,
     st |-> st, fx |-> {}, resp |-> NoResponse]
Returned(rate, st, fx, resp) ==
    [raised |-> FALSE, rate |-> rate, ret |-> rate, needs |-> FALSE, info |-> NoInfo,
     st |-> st, fx |-> fx, resp |-> resp]

get_live_exchange_rate(code, st, resp) ==
    IF code.kind # "str"
    THEN Raised(st)                 \* currency_code.upper() raises AttributeError
    ELSE LET currency_code == str_upper(code.chars) IN
         IF currency_code = USD
         THEN Returned(ONE, st, {}, NoResponse)
         ELSE IF CacheHit(currency_code, st.cache)
         THEN Returned(st.cache[currency_code], st, {"cacheRead"}, NoResponse)
         ELSE LET rate == LookupRate(currency_code, resp)
                  n    == IF currency_code \in DOMAIN st.calls
                          THEN st.calls[currency_code] ELSE 0
              IN  Returned(rate,
                           [cache  |-> Put(st.cache, currency_code, rate),
                            origin |-> Put(st.origin, currency_code,
                                           LookupOrigin(currency_code, resp)),
                            calls  |-> Put(st.calls, currency_code, n + 1)],
                           {"cacheRead", "provider", "cacheWrite"}, resp)

\* the instrument-info field is absent from the record
MissingField == [kind |-> "missing", chars |-> <<>>]

\* the financialCurrency field of the info records callers pass: absent,
\* null, empty, and codes in several letter cases
InfoFields ==
    { MissingField, NoneValue, Str(<<>>),
      Str(USD), Str(<<"u","s","d">>), Str(CNY), Str(<<"c","n","y">>), Str(<<"x","y","Z">>) }

\* a mutant of detect_financial_currency: the field is uppercased without
\* the test that it is there
detect_financial_currency_unchecked(field) ==
    IF field.kind = "missing" THEN [raised |-> FALSE, code |-> USD]
    ELSE IF field.kind # "str" THEN [raised |-> TRUE, code |-> <<>>]
    ELSE [raised |-> FALSE, code |-> str_upper(field.chars)]

\* the outcome of detect_financial_currency for an info record with this
\* financialCurrency field: [raised, code]
detect_financial_currency(field) ==
    LET financial_currency ==
            IF field.kind = "missing" THEN Str(USD) ELSE field   \* .get(..., 'USD')
    IN  IF financial_currency.kind = "str" /\ financial_currency.chars # <<>>
        THEN [raised |-> FALSE, code |-> str_upper(financial_currency.chars)]
        ELSE IF financial_currency.kind \in {"None", "str"}
        THEN [raised |-> FALSE, code |-> USD]        \* falsy: None or ''
        ELSE [raised |-> TRUE, code |-> <<>>]        \* truthy without .upper()

\* a mutant of needs_currency_conversion: the code is compared as given
needs_currency_conversion_case_sensitive(financial_currency) ==
    IF financial_currency.kind # "str"
    THEN [raised |-> TRUE, needs |-> FALSE]
    ELSE [raised |-> FALSE, needs |-> financial_currency.chars # USD]

\* the outcome of needs_currency_conversion: [raised, needs]
needs_currency_conversion(financial_currency) ==
    IF financial_currency.kind # "str"
    THEN [raised |-> TRUE, needs |-> FALSE]
    ELSE [raised |-> FALSE, needs |-> str_upper(financial_currency.chars) # USD]

get_conversion_rate(financial_currency, st, resp) ==
    IF financial_currency.kind # "str"
    THEN Raised(st)
    ELSE LET currency_code == str_upper(financial_currency.chars) IN
         IF currency_code = USD
         THEN Returned(ONE, st, {}, NoResponse)
         ELSE get_live_exchange_rate(Str(currency_code), st, resp)

\* a mutant of convert_to_usd: the rate is returned instead of the product
convert_to_usd_rate_only(value, financial_currency, st, resp) ==
    LET n == needs_currency_conversion(financial_currency) IN
    IF n.raised THEN Raised(st)
    ELSE IF ~n.needs
    THEN [Returned(0, st, {}, NoResponse) EXCEPT !.ret = value * ONE]
    ELSE LET r == get_conversion_rate(financial_currency, st, resp) IN
         IF r.raised THEN r
         ELSE [r EXCEPT !.ret = r.rate, !.needs = TRUE]

convert_to_usd(value, financial_currency, st, resp) ==
    LET n == needs_currency_conversion(financial_currency) IN
    IF n.raised THEN Raised(st)
    ELSE IF ~n.needs
    THEN [Returned(0, st, {}, NoResponse) EXCEPT !.ret = value * ONE]
    ELSE LET r == get_conversion_rate(financial_currency, st, resp) IN
         IF r.raised THEN r
         ELSE [r EXCEPT !.ret = value * r.rate, !.needs = TRUE]

ConvertedSuffix == <<" (converted to USD)">>

\* the exchange_rate_source label of get_currency_info_dict
ExchangeRateSource(needs_conversion) ==
    IF needs_conversion THEN "yfinance (live)" ELSE "N/A (USD)"

get_currency_info_dict(financial_currency, st, resp) ==
    LET n == needs_currency_conversion(financial_currency) IN
    IF n.raised THEN Raised(st)
    ELSE LET r == get_conversion_rate(financial_currency, st, resp) IN
         IF r.raised THEN r
         ELSE [r EXCEPT
                 !.ret = 0,
                 !.needs = n.needs,
                 !.info = [reportingCurrency |->
                               IF n.needs
                               THEN financial_currency.chars \o ConvertedSuffix
                               ELSE financial_currency.chars,
                           conversionApplied |-> n.needs,
                           conversionRate |-> r.rate,
                           exchangeRateSource |->
                               ExchangeRateSource(n.needs)]]

\* a mutant of ClearedCache: the clear rebinds a local name and the cache keeps its entries
ClearedCacheKept(c) == c

\* _EXCHANGE_RATE_CACHE.clear()
ClearedCache(c) == EmptyCache

-----------------------------------------------------------------------------
(* clean_nan_values (yfinanceWrapper.py and yfinanceWrapper_v2.py)           *)
(*                                                                           *)
(* An object is a node [t, leaf, keys, kids]: t is its Python type, leaf the *)
(* value of a scalar, kids the items of a list or the values of a dict in    *)
(* order, keys the keys of a dict in the same order.                         *)

Scalar(t, v) == [t |-> t, leaf |-> v, keys |-> <<>>, kids |-> <<>>]
List(items) == [t |-> "list", leaf |-> "", keys |-> <<>>, kids |-> items]
Dict(ks, vs) == [t |-> "dict", leaf |-> "", keys |-> ks, kids |-> vs]

NoObject == Scalar("none yet", "")
NaN == Scalar("float", "nan")
PosInf == Scalar("float", "inf")
NegInf == Scalar("float", "-inf")
IntZero == Scalar("int", "0")

\* math.isnan, math.isinf
IsNan(obj) == obj.leaf = "nan"
IsInf(obj) == obj.leaf \in {"inf", "-inf"}

\* the scalars of the objects: the three special floats, a finite float, a
\* string spelling NaN, an integer, a boolean and null
Scalars ==
    { NaN, PosInf, NegInf, Scalar("float", "3.0"), Scalar("str", "NaN"),
      Scalar("int", "7"), Scalar("bool", "True"), Scalar("NoneType", "None") }

\* the objects nested at most n deep
RECURSIVE ObjectsUpTo(_)
ObjectsUpTo(n) ==
    IF n = 0 THEN Scalars
    ELSE LET inner == ObjectsUpTo(n - 1) IN
         Scalars \cup {List(<<>>), Dict(<<>>, <<>>)}
         \cup {List(<<x>>) : x \in inner}
         \cup {List(<<l, x>>) : l \in Scalars, x \in inner}
         \cup {Dict(<<"a">>, <<x>>) : x \in inner}
         \cup {Dict(<<"a", "b">>, <<l, x>>) : l \in Scalars, x \in inner}

\* {"a": NaN, "b": [Inf, -Inf, 3.0], "c": {"d": NaN}}
ExampleObject ==
    Dict(<<"a", "b", "c">>,
         <<NaN, List(<<PosInf, NegInf, Scalar("float", "3.0")>>), Dict(<<"d">>, <<NaN>>)>>)

CleanInputs == ObjectsUpTo(MaxDepth) \cup {ExampleObject}

\* a mutant of clean_nan_values: only math.isnan is tested
RECURSIVE clean_nan_values_nan_only(_)
clean_nan_values_nan_only(obj) ==
    IF obj.t = "dict"
    THEN [obj EXCEPT !.kids = [i \in DOMAIN obj.kids |-> clean_nan_values_nan_only(obj.kids[i])]]
    ELSE IF obj.t = "list"
    THEN [obj EXCEPT !.kids = [i \in DOMAIN obj.kids |-> clean_nan_values_nan_only(obj.kids[i])]]
    ELSE IF obj.t = "float"
    THEN IF IsNan(obj) THEN IntZero ELSE obj
    ELSE obj

RECURSIVE clean_nan_values(_)
clean_nan_values(obj) ==
    IF obj.t = "dict"
    THEN [obj EXCEPT !.kids = [i \in DOMAIN obj.kids |-> clean_nan_values(obj.kids[i])]]
    ELSE IF obj.t = "list"
    THEN [obj EXCEPT !.kids = [i \in DOMAIN obj.kids |-> clean_nan_values(obj.kids[i])]]
    ELSE IF obj.t = "float"
    THEN IF IsNan(obj) \/ IsInf(obj) THEN IntZero ELSE obj
    ELSE obj

-----------------------------------------------------------------------------
(* get_stock_data (yfinanceWrapper.py), from the annual financials on        *)
(*                                                                           *)
(* Statement amounts are in billions; an entry of the result is the amount   *)
(* times the conversion rate, in millionths.                                 *)

\* the local conversion_rate before line 217 assigns it
Unbound == -1

\* what the provider holds for a symbol: whether ticker.cashflow raises, the
\* quarterly statement (its columns' revenues, none, or an access that
\* raises), the balance sheet likewise, and the financialCurrency field
Ticker(cf, qk, bk, field) ==
    [cashflow |-> cf,
     qKind |-> qk, qRevenues |-> IF qk = "data" THEN <<2, 3>> ELSE <<>>,
     bKind |-> bk, bAssets |-> IF bk = "data" THEN 5 ELSE 0,
     field |-> field]

NoTicker == Ticker("ok", "empty", "empty", MissingField)

Tickers ==
    { Ticker(cf, qk, bk, field) :
        cf \in {"ok", "raises"},
        qk \in {"data", "empty", "raises"},
        bk \in {"data", "empty", "raises"},
        field \in {MissingField, Str(<<"c","n","y">>), IntValue} }

\* result["currencyInfo"], result["quarterlyFinancials"] (the revenues of its
\* entries) and result["balanceSheet"] (its totalAssets) as lines 129-169
\* build them
InitialResult ==
    [currencyInfo |-> [reportingCurrency |-> USD, conversionApplied |-> FALSE,
                       conversionRate |-> ONE, exchangeRateSource |-> "absent"],
     quarterlyFinancials |-> <<>>,
     balanceSheet |-> [totalAssets |-> 0]]

\* lines 172-257: the outcome of the annual step, [bound, info, st]: whether
\* lines 214-217 were reached, the descriptor they got and the cache they left
AnnualStep(ticker, st, resp) ==
    IF ticker.cashflow = "raises" \/ ticker.qKind = "raises"
    THEN [bound |-> FALSE, info |-> NoInfo, st |-> st]     \* lines 174, 187 raise
    ELSE LET d == detect_financial_currency(ticker.field) IN
         IF d.raised
         THEN [bound |-> FALSE, info |-> NoInfo, st |-> st]
         ELSE LET r == get_currency_info_dict(Str(d.code), st, resp) IN
              IF r.raised
              THEN [bound |-> FALSE, info |-> NoInfo, st |-> r.st]
              ELSE [bound |-> TRUE, info |-> r.info, st |-> r.st]

\* lines 261-298: the entries appended to result["quarterlyFinancials"]
QuarterlyEntries(ticker, rate) ==
    IF ticker.qKind # "data" THEN <<>>       \* nothing to add, or line 262 raises
    ELSE IF rate = Unbound THEN <<>>         \* line 289 raises NameError, caught at 297
    ELSE [i \in DOMAIN ticker.qRevenues |-> ticker.qRevenues[i] * rate]

\* lines 301-398: result["balanceSheet"] after the balance-sheet step
BalanceSheet(ticker, rate, before) ==
    IF ticker.bKind # "data" THEN before     \* nothing to set, or line 302 raises
    ELSE IF rate = Unbound THEN before       \* line 389 raises NameError, caught at 397
    ELSE [totalAssets |-> ticker.bAssets * rate]

-----------------------------------------------------------------------------
(* Sequential use: every public operation runs to completion *)

Workers == 1..NumWorkers

CurrencyInit ==
    /\ cache = EmptyCache
    /\ origin = <<>>
    /\ calls = <<>>
    /\ first = <<>>
    /\ preClear = {}
    /\ lastOp = "none"
    /\ lastArg = NoneValue
    /\ lastValue = 0
    /\ lastRaised = FALSE
    /\ lastRate = 0
    /\ lastRet = 0
    /\ lastNeeds = FALSE
    /\ lastInfo = NoInfo
    /\ lastFx = {}
    /\ lastResp = NoResponse
    /\ lastCode = <<>>
    /\ described = <<>>
    /\ pc = [w \in Workers |-> "idle"]
    /\ wKey = [w \in Workers |-> <<>>]
    /\ wResp = [w \in Workers |-> NoResponse]
    /\ wRet = [w \in Workers |-> 0]
    /\ wMiss = [w \in Workers |-> FALSE]

\* clean_nan_values is not running
CleanOff ==
    /\ cnInput = NoObject
    /\ cnOutput = NoObject
    /\ cnTwice = NoObject
    /\ cnPc = "off"

\* get_stock_data is not running
StockOff ==
    /\ gsPc = "off"
    /\ gsTicker = NoTicker
    /\ gsRate = Unbound
    /\ gsResult = InitialResult

\* signal.alarm(0): no alarm is pending
NoAlarm == 0

\* yfinanceWrapper_v2 is not running
BasicOff ==
    /\ bArg = <<>>
    /\ bSymbols = <<>>
    /\ bIdx = 1
    /\ bPc = "off"
    /\ bAlarm = NoAlarm
    /\ bRet = <<>>
    /\ bResults = <<>>

Init == CurrencyInit /\ CleanOff /\ StockOff /\ BasicOff

\* the operation `op` ran with these arguments and had outcome r
Commit(op, arg, value, outcome) ==
    \E r \in {outcome} :
    /\ \A k \in DOMAIN r.st.calls : r.st.calls[k] <= MaxCalls
    /\ cache' = r.st.cache
    /\ origin' = r.st.origin
    /\ calls' = r.st.calls
    /\ first' = IF ~r.raised /\ r.fx # {} /\ str_upper(arg.chars) \notin DOMAIN first
                THEN Put(first, str_upper(arg.chars), r.rate)
                ELSE first
    /\ preClear' = preClear
    /\ lastOp' = op
    /\ lastArg' = arg
    /\ lastValue' = value
    /\ lastRaised' = r.raised
    /\ lastRate' = r.rate
    /\ lastRet' = r.ret
    /\ lastNeeds' = r.needs
    /\ lastInfo' = r.info
    /\ lastFx' = r.fx
    /\ lastResp' = r.resp
    /\ lastCode' = <<>>
    /\ described' = IF op = "get_currency_info_dict" /\ ~r.raised /\ r.needs
                    THEN Put(described, str_upper(arg.chars), r.info.conversionRate)
                    ELSE described
    /\ UNCHANGED stepVars
    /\ UNCHANGED extVars

\* the provider answers only an operation that queries it: the choices of
\* response for an operation that, run without one, has outcome `probe`
Answers(probe) == IF "provider" \in probe.fx THEN Responses ELSE {NoResponse}

GetLiveExchangeRate ==
    \E code \in CodeInputs :
    \E resp \in Answers(get_live_exchange_rate(code, State, NoResponse)) :
        Commit("get_live_exchange_rate", code, 0,
               get_live_exchange_rate(code, State, resp))

GetConversionRate ==
    \E code \in CodeInputs :
    \E resp \in Answers(get_conversion_rate(code, State, NoResponse)) :
        Commit("get_conversion_rate", code, 0,
               get_conversion_rate(code, State, resp))

NeedsCurrencyConversion ==
    \E code \in CodeInputs :
    \E n \in {needs_currency_conversion(code)} :
        Commit("needs_currency_conversion", code, 0,
               IF n.raised THEN Raised(State)
               ELSE [Returned(0, State, {}, NoResponse) EXCEPT !.needs = n.needs])

ConvertToUsd ==
    \E value \in ValueInputs, code \in CodeInputs :
    \E resp \in Answers(convert_to_usd(value, code, State, NoResponse)) :
        Commit("convert_to_usd", code, value,
               convert_to_usd(value, code, State, resp))

GetCurrencyInfoDict ==
    \E code \in CodeInputs :
    \E resp \in Answers(get_currency_info_dict(code, State, NoResponse)) :
        Commit("get_currency_info_dict", code, 0,
               get_currency_info_dict(code, State, resp))

DetectFinancialCurrency ==
    \E field \in InfoFields :
    \E d \in {detect_financial_currency(field)} :
        /\ lastOp' = "detect_financial_currency"
        /\ lastArg' = field
        /\ lastValue' = 0
        /\ lastRaised' = d.raised
        /\ lastRate' = 0
        /\ lastRet' = 0
        /\ lastNeeds' = FALSE
        /\ lastInfo' = NoInfo
        /\ lastFx' = {}
        /\ lastResp' = NoResponse
        /\ lastCode' = d.code
        /\ UNCHANGED <<cache, origin, calls, first, preClear, described>>
        /\ UNCHANGED stepVars
        /\ UNCHANGED extVars

ClearExchangeRateCache ==
    /\ cache' = ClearedCache(cache)
    /\ origin' = [k \in DOMAIN cache' |-> origin[k]]
    /\ calls' = <<>>
    /\ first' = <<>>
    /\ preClear' = DOMAIN cache
    /\ lastOp' = "clear_exchange_rate_cache"
    /\ lastArg' = NoneValue
    /\ lastValue' = 0
    /\ lastRaised' = FALSE
    /\ lastRate' = 0
    /\ lastRet' = 0
    /\ lastNeeds' = FALSE
    /\ lastInfo' = NoInfo
    /\ lastFx' = {"cacheWrite"}
    /\ lastResp' = NoResponse
    /\ lastCode' = <<>>
    /\ described' = <<>>
    /\ UNCHANGED stepVars
    /\ UNCHANGED extVars

Next ==
    \/ GetLiveExchangeRate
    \/ GetConversionRate
    \/ NeedsCurrencyConversion
    \/ ConvertToUsd
    \/ GetCurrencyInfoDict
    \/ DetectFinancialCurrency
    \/ ClearExchangeRateCache

Spec == Init /\ [][Next]_vars

-----------------------------------------------------------------------------
(* get_live_exchange_rate step by step: a caller blocks in ticker.history()  *)
(* until the provider answers, and callers may overlap                       *)

\* the codes the overlapping callers resolve
StepCodes == { Str(<<"u","s","d">>), Str(<<"c","n","y">>), Str(<<"X","Y","Z">>) }

\* the answers the provider gives the overlapping callers: an exception, an
\* empty frame, a positive close, a negative close
StepResponses ==
    { r \in Responses :
        \/ r.kind \in {"raises", "empty"}
        \/ r.kind = "series" /\ r.close \in {-139000, 139000} }

\* lines 58-75: up to the call of ticker.history(period='1d').  A new call
\* holds no answer and has returned nothing yet.
CallBegin(w) ==
    /\ pc[w] = "idle"
    /\ \E code \in StepCodes :
         LET currency_code == str_upper(code.chars) IN
         IF currency_code = USD
         THEN /\ wRet' = [wRet EXCEPT ![w] = ONE]
              /\ wKey' = [wKey EXCEPT ![w] = currency_code]
              /\ wMiss' = [wMiss EXCEPT ![w] = FALSE]
              /\ wResp' = [wResp EXCEPT ![w] = NoResponse]
              /\ UNCHANGED pc
         ELSE IF CacheHit(currency_code, cache)
         THEN /\ wRet' = [wRet EXCEPT ![w] = cache[currency_code]]
              /\ wKey' = [wKey EXCEPT ![w] = currency_code]
              /\ wMiss' = [wMiss EXCEPT ![w] = FALSE]
              /\ wResp' = [wResp EXCEPT ![w] = NoResponse]
              /\ UNCHANGED pc
         ELSE /\ pc' = [pc EXCEPT ![w] = "waiting"]
              /\ wKey' = [wKey EXCEPT ![w] = currency_code]
              /\ wResp' = [wResp EXCEPT ![w] = NoResponse]
              /\ wMiss' = [wMiss EXCEPT ![w] = TRUE]
              /\ wRet' = [wRet EXCEPT ![w] = 0]
    /\ UNCHANGED seqVars
    /\ UNCHANGED extVars

\* the provider's step: ticker.history() returns or raises.  Nothing in the
\* program makes this step happen.
ProviderAnswers(w) ==
    /\ pc[w] = "waiting"
    /\ \E resp \in StepResponses : wResp' = [wResp EXCEPT ![w] = resp]
    /\ pc' = [pc EXCEPT ![w] = "answered"]
    /\ UNCHANGED <<wKey, wRet, wMiss>>
    /\ UNCHANGED seqVars
    /\ UNCHANGED extVars

\* lines 77-101: the rate is chosen, stored and returned
CallReturn(w) ==
    /\ pc[w] = "answered"
    /\ cache' = Put(cache, wKey[w], LookupRate(wKey[w], wResp[w]))
    /\ origin' = Put(origin, wKey[w], LookupOrigin(wKey[w], wResp[w]))
    /\ wRet' = [wRet EXCEPT ![w] = LookupRate(wKey[w], wResp[w])]
    /\ pc' = [pc EXCEPT ![w] = "idle"]
    /\ UNCHANGED <<wKey, wResp, wMiss>>
    /\ UNCHANGED <<calls, first, preClear, lastOp, lastArg, lastValue, lastRaised,
                   lastRate, lastRet, lastNeeds, lastInfo, lastFx, lastResp,
                   lastCode, described>>
    /\ UNCHANGED extVars

StepNext == \E w \in Workers : CallBegin(w) \/ ProviderAnswers(w) \/ CallReturn(w)

StepSpec == Init /\ [][StepNext]_vars

\* A caller that holds the provider's answer goes on: the interpreter runs it.
\* The provider is not obliged to answer.
FairStepSpec == StepSpec /\ \A w \in Workers : WF_vars(CallReturn(w))

-----------------------------------------------------------------------------
(* Vocabulary of the properties *)

\* resolveRate
RateOps == {"get_live_exchange_rate", "get_conversion_rate"}
\* the operations that resolve a rate
ResolvingOps == RateOps \cup {"convert_to_usd", "get_currency_info_dict"}

\* the spellings of USD
IsUsdAnyCase(s) ==
    /\ Len(s) = Len(USD)
    /\ s[1] \in {"U", "u"} /\ s[2] \in {"S", "s"} /\ s[3] \in {"D", "d"}

\* the code holds no lowercase letter
IsUpperCode(s) == \A i \in DOMAIN s : s[i] \notin LowerSet

\* the uppercase code an argument stands for
Canon(arg) == [i \in DOMAIN arg.chars |-> UpperChar(arg.chars[i])]

\* the argument is text and is not USD in any spelling
NonUsdText(arg) == arg.kind = "str" /\ ~IsUsdAnyCase(arg.chars)

\* the rate the fallback path must give for a code
ExpectedFallback(k) ==
    IF k \in DOMAIN FALLBACK_CURRENCY_RATES THEN FALLBACK_CURRENCY_RATES[k] ELSE ONE

\* the ways a live lookup fails: the provider raises, the series is empty,
\* the response has no closing prices, the latest close is not positive
FailedResponses ==
    {r \in Responses : r.kind # "series" \/ r.close <= 0}

LiveLabel == "yfinance (live)"
NoConversionLabel == "N/A (USD)"

-----------------------------------------------------------------------------
(* C1 *)

\* C1: when the live lookup of get_live_exchange_rate(code) fails (the
\* provider raises, the series is empty, the latest close is not positive,
\* the response has an unrecognized shape), the call returns
\* FALLBACK_CURRENCY_RATES[code] if the code is in the table and 1.0 if it is
\* not, and the cache holds that value under the uppercase code.
C1_FallbackOnFailedLookup ==
    (lastOp = "get_live_exchange_rate" /\ lastResp \in FailedResponses) =>
        /\ ~lastRaised
        /\ lastRet = ExpectedFallback(Canon(lastArg))
        /\ Canon(lastArg) \in DOMAIN cache
        /\ cache[Canon(lastArg)] = ExpectedFallback(Canon(lastArg))

\* a lookup for "cny" answered with a non-positive close returned 1/7.0
C1_Witness ==
    /\ lastOp = "get_live_exchange_rate"
    /\ lastArg = Str(<<"c","n","y">>)
    /\ lastResp = [kind |-> "series", close |-> -139000]
    /\ lastRet = 142857
    /\ cache[CNY] = 142857

-----------------------------------------------------------------------------
(* C2 *)

\* C2: with no clear in between, the provider is queried at most once per
\* currency code, whether the first query succeeded or fell back, and every
\* operation that resolves the code uses the rate the first one returned.
C2_OneLookupPerCode ==
    /\ \A k \in DOMAIN calls : calls[k] <= 1
    /\ (lastOp \in ResolvingOps /\ ~lastRaised /\ NonUsdText(lastArg)) =>
          /\ Canon(lastArg) \in DOMAIN first
          /\ lastRate = first[Canon(lastArg)]
          /\ lastOp \in RateOps => lastRet = first[Canon(lastArg)]
          /\ lastOp = "convert_to_usd" => lastRet = lastValue * first[Canon(lastArg)]
          /\ lastOp = "get_currency_info_dict" =>
                 lastInfo.conversionRate = first[Canon(lastArg)]

\* a convert for CNY served from the cache after the first lookup fell back
C2_Witness ==
    /\ lastOp = "convert_to_usd"
    /\ lastArg = Str(CNY)
    /\ lastFx = {"cacheRead"}
    /\ origin[CNY] = "fallback"
    /\ calls[CNY] = 1
    /\ lastRet = lastValue * 142857
    /\ lastValue = 1000

-----------------------------------------------------------------------------
(* C3 *)

\* C3: the rate-source label of the descriptor of a non-USD code is the live
\* label only if the rate held for the code came from a successful provider
\* lookup, and is a fallback label when the rate came from the fallback
\* path; for USD it is the no-conversion label.
C3_SourceLabelFollowsOrigin ==
    (lastOp = "get_currency_info_dict" /\ ~lastRaised) =>
        IF NonUsdText(lastArg)
        THEN /\ lastInfo.conversionApplied
             /\ lastInfo.exchangeRateSource = LiveLabel
                    => origin[Canon(lastArg)] = "live"
             /\ origin[Canon(lastArg)] = "fallback"
                    => lastInfo.exchangeRateSource \notin {LiveLabel, NoConversionLabel}
        ELSE lastInfo.exchangeRateSource = NoConversionLabel

-----------------------------------------------------------------------------
(* C4 *)

\* C4: every call of get_live_exchange_rate eventually returns, even when
\* the provider never answers the live lookup.
C4_CallEventuallyReturns ==
    \A w \in Workers : (pc[w] = "waiting") ~> (pc[w] = "idle")

-----------------------------------------------------------------------------
(* C5 *)

\* C5: for USD in any letter case, resolveRate returns 1.0 whatever the
\* cache holds, without reading or writing the cache and without calling
\* the provider.
C5_UsdIsIdentity ==
    [][ (lastOp' \in RateOps /\ lastArg'.kind = "str" /\ IsUsdAnyCase(lastArg'.chars)) =>
            /\ ~lastRaised'
            /\ lastRet' = ONE
            /\ lastFx' = {}
            /\ lastResp' = NoResponse
            /\ cache' = cache
            /\ calls' = calls ]_vars

\* "usd" resolved to 1.0 while the cache held two rates
C5_Witness ==
    /\ lastOp = "get_live_exchange_rate"
    /\ lastArg = Str(<<"u","s","d">>)
    /\ lastRet = ONE
    /\ lastFx = {}
    /\ Cardinality(DOMAIN cache) = 2

-----------------------------------------------------------------------------
(* C6 *)

\* C6: clear_exchange_rate_cache leaves the cache empty, and the first
\* resolveRate for a non-USD code after it (no lookup for the code since the
\* clear) queries the provider, also when the code was cached before the clear.
C6_ClearForcesLookup ==
    [][ /\ lastOp' = "clear_exchange_rate_cache" => DOMAIN cache' = {}
        /\ (lastOp' \in RateOps /\ NonUsdText(lastArg')
                /\ Canon(lastArg') \notin DOMAIN calls) =>
              /\ "provider" \in lastFx'
              /\ lastResp' \in Responses
              /\ calls'[Canon(lastArg')] = 1 ]_vars

\* a resolveRate for CNY, which the cache held when it was last cleared,
\* queried the provider again
C6_Witness ==
    /\ lastOp = "get_conversion_rate"
    /\ lastArg = Str(CNY)
    /\ CNY \in preClear
    /\ "provider" \in lastFx
    /\ calls[CNY] = 1

-----------------------------------------------------------------------------
(* C7 *)

\* C7: no public operation raises an exception, for any input.
C7_NoOperationRaises == ~lastRaised

-----------------------------------------------------------------------------
(* C8 *)

\* C8 as stated: building a descriptor leaves the cache as it was and makes
\* no provider lookup, for any code and any cache state.
C8_BuilderChangesNothing ==
    lastOp = "get_currency_info_dict" =>
        "provider" \notin lastFx /\ "cacheWrite" \notin lastFx

\* C8 amended: building a descriptor changes nothing when the code is USD,
\* is already cached, or is not text (the builder raises); for a non-USD code
\* that is not cached it makes one provider lookup and adds the entry of that
\* code, leaving every other entry as it was.
C8_BuilderAddsAtMostItsCode ==
    [][ lastOp' = "get_currency_info_dict" =>
          IF NonUsdText(lastArg') /\ Canon(lastArg') \notin DOMAIN cache
          THEN /\ DOMAIN cache' = DOMAIN cache \cup {Canon(lastArg')}
               /\ \A k \in DOMAIN cache : cache'[k] = cache[k]
               /\ lastFx' = {"cacheRead", "provider", "cacheWrite"}
               /\ lastResp' \in Responses
               /\ calls' = Put(calls, Canon(lastArg'), 1)
               /\ lastInfo'.conversionRate = cache'[Canon(lastArg')]
          ELSE /\ cache' = cache
               /\ calls' = calls
               /\ "provider" \notin lastFx'
               /\ "cacheWrite" \notin lastFx' ]_vars

\* a descriptor for XYZ, not cached, queried the provider and added XYZ
\* beside the entry of CNY
C8_Witness ==
    /\ lastOp = "get_currency_info_dict"
    /\ lastArg = Str(<<"x","y","Z">>)
    /\ "provider" \in lastFx
    /\ DOMAIN cache = {CNY, <<"X","Y","Z">>}
    /\ lastInfo.conversionApplied

-----------------------------------------------------------------------------
(* C9 *)

\* C9: the cache has no entry for USD, every key is an uppercase code, and
\* a code is a key only if the provider was queried for it since the last
\* clear.
C9_CacheKeys ==
    \A k \in DOMAIN cache :
        /\ ~IsUsdAnyCase(k)
        /\ IsUpperCode(k)
        /\ k \in DOMAIN calls
        /\ calls[k] >= 1

\* after a clear, a convert for "cny" put the key CNY in the cache
C9_Witness ==
    /\ lastOp = "convert_to_usd"
    /\ lastArg = Str(<<"c","n","y">>)
    /\ "cacheWrite" \in lastFx
    /\ DOMAIN cache = {CNY}
    /\ preClear # {}

-----------------------------------------------------------------------------
(* C10 *)

\* C10: the cache starts empty, and no operation other than
\* clear_exchange_rate_cache removes an entry or changes the rate of a code
\* that is present.
C10_CacheOnlyGrows ==
    /\ DOMAIN cache = {}
    /\ [][ lastOp' # "clear_exchange_rate_cache" =>
             \A k \in DOMAIN cache : k \in DOMAIN cache' /\ cache'[k] = cache[k] ]_vars

\* a second entry was added beside one that stayed
C10_Witness ==
    /\ lastOp = "get_conversion_rate"
    /\ "cacheWrite" \in lastFx
    /\ Cardinality(DOMAIN cache) = 2
    /\ CNY \in DOMAIN cache
    /\ origin[CNY] = "live"

-----------------------------------------------------------------------------
(* C11 *)

\* C11: when the provider returns a series whose latest close is positive,
\* resolveRate stores exactly that price and returns it; with every other
\* answer the stored value is the fallback table's or 1.0; so every rate in
\* the cache and every rate resolveRate returns is greater than zero.
C11_RatesArePositive ==
    /\ \A k \in DOMAIN cache : cache[k] > 0
    /\ (lastOp \in RateOps /\ ~lastRaised) => lastRet > 0
    /\ (lastOp \in RateOps /\ lastResp \in Responses) =>
          /\ lastRet = cache[Canon(lastArg)]
          /\ IF lastResp.kind = "series" /\ lastResp.close > 0
             THEN lastRet = lastResp.close /\ origin[Canon(lastArg)] = "live"
             ELSE lastRet = ExpectedFallback(Canon(lastArg))

\* a lookup for XYZ answered with a latest close of 0.139 stored and
\* returned 0.139
C11_Witness ==
    /\ lastOp = "get_conversion_rate"
    /\ lastArg = Str(<<"X","Y","Z">>)
    /\ lastResp = [kind |-> "series", close |-> 139000]
    /\ lastRet = 139000
    /\ cache[<<"X","Y","Z">>] = 139000

-----------------------------------------------------------------------------
(* C12 *)

\* C12: convert_to_usd(value, code) returns value unchanged, touching
\* neither the cache nor the provider, when the code is USD in any letter
\* case; for every other code it returns value times the rate resolved for
\* the code, so converting 0 gives 0.
C12_ConvertMultiplies ==
    [][ (lastOp' = "convert_to_usd" /\ ~lastRaised') =>
          IF IsUsdAnyCase(lastArg'.chars)
          THEN /\ lastRet' = lastValue' * ONE
               /\ lastFx' = {}
               /\ cache' = cache
               /\ calls' = calls
          ELSE /\ lastRet' = lastValue' * cache'[Canon(lastArg')]
               /\ lastValue' = 0 => lastRet' = 0 ]_vars

\* -3 converted from "cny" at the fallback rate 1/7.0
C12_Witness ==
    /\ lastOp = "convert_to_usd"
    /\ lastArg = Str(<<"c","n","y">>)
    /\ lastValue = -3
    /\ cache[CNY] = 142857
    /\ lastRet = -428571

-----------------------------------------------------------------------------
(* C13 *)

-----------------------------------------------------------------------------
(* C14 *)

\* C14: the conversionRate of a descriptor is the rate the cache holds for
\* the code when the builder returns (1.0 for USD) and stays so until the
\* next clear, so a later convert_to_usd(v, code) equals v times the
\* descriptor's conversionRate; conversionApplied is true exactly when the
\* code is not USD.
C14_DescriptorRateIsCacheRate ==
    /\ (lastOp = "get_currency_info_dict" /\ ~lastRaised) =>
          /\ lastInfo.conversionApplied = ~IsUsdAnyCase(lastArg.chars)
          /\ IF IsUsdAnyCase(lastArg.chars)
             THEN lastInfo.conversionRate = ONE
             ELSE lastInfo.conversionRate = cache[Canon(lastArg)]
    /\ \A k \in DOMAIN described : k \in DOMAIN cache /\ described[k] = cache[k]
    /\ (lastOp = "convert_to_usd" /\ ~lastRaised /\ NonUsdText(lastArg)
            /\ Canon(lastArg) \in DOMAIN described) =>
          lastRet = lastValue * described[Canon(lastArg)]

\* 1000 converted from CNY after a descriptor for CNY reported the live
\* rate 0.139
C14_Witness ==
    /\ lastOp = "convert_to_usd"
    /\ lastArg = Str(CNY)
    /\ lastValue = 1000
    /\ CNY \in DOMAIN described
    /\ described[CNY] = 139000
    /\ lastRet = 139000000

-----------------------------------------------------------------------------
(* clean_nan_values applied to an object, then to its own result *)

CleanInit ==
    /\ CurrencyInit
    /\ StockOff
    /\ BasicOff
    /\ cnInput \in CleanInputs
    /\ cnOutput = NoObject
    /\ cnTwice = NoObject
    /\ cnPc = "start"

CleanOnce ==
    /\ cnPc = "start"
    /\ cnOutput' = clean_nan_values(cnInput)
    /\ cnPc' = "cleaned"
    /\ UNCHANGED <<cnInput, cnTwice>>
    /\ UNCHANGED <<seqVars, stepVars, stockVars, basicVars>>

CleanAgain ==
    /\ cnPc = "cleaned"
    /\ cnTwice' = clean_nan_values(cnOutput)
    /\ cnPc' = "twice"
    /\ UNCHANGED <<cnInput, cnOutput>>
    /\ UNCHANGED <<seqVars, stepVars, stockVars, basicVars>>

CleanNext == CleanOnce \/ CleanAgain

CleanSpec == CleanInit /\ [][CleanNext]_vars

-----------------------------------------------------------------------------
(* C15 *)

\* out is obj with every NaN, +Infinity and -Infinity float, at any depth,
\* replaced by 0 and nothing else changed
RECURSIVE IsCleanedCopy(_, _)
IsCleanedCopy(obj, out) ==
    IF obj.t \in {"dict", "list"}
    THEN /\ out.t = obj.t
         /\ out.keys = obj.keys
         /\ Len(out.kids) = Len(obj.kids)
         /\ \A i \in DOMAIN obj.kids : IsCleanedCopy(obj.kids[i], out.kids[i])
    ELSE IF obj \in {NaN, PosInf, NegInf}
    THEN out = IntZero
    ELSE out = obj

-----------------------------------------------------------------------------
(* get_stock_data for one symbol, step by step *)

StockInit ==
    /\ CurrencyInit
    /\ CleanOff
    /\ BasicOff
    /\ gsPc = "annual"
    /\ gsTicker \in Tickers
    /\ gsRate = Unbound
    /\ gsResult = InitialResult

\* the frame of the steps of get_stock_data: of the currency state they
\* change the cache only
StockFrame ==
    /\ UNCHANGED <<first, preClear, lastOp, lastArg, lastValue, lastRaised, lastRate,
                   lastRet, lastNeeds, lastInfo, lastFx, lastResp, lastCode, described>>
    /\ UNCHANGED <<stepVars, cleanVars, basicVars>>

GsAnnual ==
    /\ gsPc = "annual"
    /\ \E resp \in Responses :
       \E a \in {AnnualStep(gsTicker, State, resp)} :
         /\ cache' = a.st.cache
         /\ origin' = a.st.origin
         /\ calls' = a.st.calls
         /\ gsRate' = IF a.bound THEN a.info.conversionRate ELSE Unbound
         /\ gsResult' = IF a.bound THEN [gsResult EXCEPT !.currencyInfo = a.info]
                        ELSE gsResult
    /\ gsPc' = "quarterly"
    /\ UNCHANGED gsTicker
    /\ StockFrame

GsQuarterly ==
    /\ gsPc = "quarterly"
    /\ gsResult' = [gsResult EXCEPT !.quarterlyFinancials =
                                        QuarterlyEntries(gsTicker, gsRate)]
    /\ gsPc' = "balance"
    /\ UNCHANGED <<gsTicker, gsRate, cache, origin, calls>>
    /\ StockFrame

GsBalance ==
    /\ gsPc = "balance"
    /\ gsResult' = [gsResult EXCEPT !.balanceSheet =
                                        BalanceSheet(gsTicker, gsRate, @)]
    /\ gsPc' = "done"
    /\ UNCHANGED <<gsTicker, gsRate, cache, origin, calls>>
    /\ StockFrame

StockNext == GsAnnual \/ GsQuarterly \/ GsBalance

StockSpec == StockInit /\ [][StockNext]_vars

-----------------------------------------------------------------------------
(* C16 *)

\* C16: when get_stock_data returns, quarterlyFinancials holds an entry for
\* every quarterly column the provider has and balanceSheet is filled from
\* the provider's balance sheet, whether or not the annual step completed.
C16_QuarterlyAndBalanceAlwaysFilled ==
    gsPc = "done" =>
        /\ gsTicker.qKind = "data" =>
               Len(gsResult.quarterlyFinancials) = Len(gsTicker.qRevenues)
        /\ gsTicker.bKind = "data" =>
               gsResult.balanceSheet # InitialResult.balanceSheet

-----------------------------------------------------------------------------
(* C17 *)

\* two callers have returned from calls for the same code that both missed
\* the cache: with no clear in between, the calls overlapped
Overlapped(w1, w2) ==
    /\ w1 # w2
    /\ pc[w1] = "idle" /\ pc[w2] = "idle"
    /\ wMiss[w1] /\ wMiss[w2]
    /\ wKey[w1] = wKey[w2]

\* the rate a lookup with this answer must give
ExpectedRate(k, resp) ==
    IF resp.kind = "series" /\ resp.close > 0 THEN resp.close ELSE ExpectedFallback(k)

\* C17 as stated: two overlapping calls for the same code return the same
\* rate, and the cache holds that rate afterwards.
C17_OverlappingCallsAgree ==
    \A w1, w2 \in Workers :
        Overlapped(w1, w2) =>
            /\ wRet[w1] = wRet[w2]
            /\ cache[wKey[w1]] = wRet[w1]

\* C17 amended: each of two overlapping calls makes its own lookup and returns
\* the rate that lookup produced (its positive latest close, else the
\* fallback rate), so the two agree when their lookups got the same answer;
\* each call stores the rate it returns, and a later call returns the rate
\* the cache holds.
C17_EachCallReturnsItsOwnLookup ==
    /\ [](\A w \in Workers :
            (pc[w] = "idle" /\ wMiss[w]) =>
                /\ wRet[w] = ExpectedRate(wKey[w], wResp[w])
                /\ wKey[w] \in DOMAIN cache)
    /\ [](\A w1, w2 \in Workers :
            (Overlapped(w1, w2) /\ wResp[w1] = wResp[w2]) => wRet[w1] = wRet[w2])
    /\ [][ \A w \in Workers :
             /\ (pc[w] = "answered" /\ pc'[w] = "idle") =>
                    cache'[wKey[w]] = wRet'[w]
             /\ (pc[w] = "idle" /\ pc'[w] = "idle"
                     /\ <<wKey[w], wRet[w], wMiss[w]>> # <<wKey'[w], wRet'[w], wMiss'[w]>>) =>
                    /\ ~wMiss'[w]
                    /\ \/ wKey'[w] = USD /\ wRet'[w] = ONE
                       \/ wKey'[w] \in DOMAIN cache /\ wRet'[w] = cache[wKey'[w]] ]_vars

\* two overlapping calls for CNY returned 0.139 and the fallback 1/7.0, and
\* the cache holds the fallback rate
C17_Witness ==
    /\ Overlapped(1, 2)
    /\ wKey[1] = CNY
    /\ wRet[1] = 139000
    /\ wRet[2] = 142857
    /\ cache[CNY] = 142857

-----------------------------------------------------------------------------
(* yfinanceWrapper_v2.py: get_basic_stock_data under its 20 second alarm,   *)
(* and the main program that calls it for one symbol or for a batch          *)

\* the parts of sys.argv[1] between the commas
ArgParts == { <<"a">>, <<"A">>, <<"b">> }

\* sys.argv[1]: one symbol (single mode) or several (batch mode)
Args == UNION { [1..n -> ArgParts] : n \in 1..MaxSymbols }

\* the record an entry of the returned mapping holds
EntryKinds == {"data", "timeout", "error"}

\* a handler that leaves the alarm as it is
OnErrorAlarmKept(alarm) == alarm

\* lines 89-90: the handler of `except Exception` cancels the alarm
OnErrorAlarm(alarm) == NoAlarm

\* results.update(result), line 122 (single mode: data = result, line 127)
Updated(results, symbol, kind) ==
    [s \in DOMAIN results \cup {symbol} |-> IF s = symbol THEN kind ELSE results[s]]

BasicInit ==
    /\ CurrencyInit
    /\ CleanOff
    /\ StockOff
    /\ bArg \in Args
    /\ bSymbols = <<>>
    /\ bIdx = 1
    /\ bPc = "start"
    /\ bAlarm = NoAlarm
    /\ bRet = <<>>
    /\ bResults = <<>>

BasicFrame == UNCHANGED <<seqVars, stepVars, cleanVars, stockVars>>

\* get_basic_stock_data returns {symbol: record} and the main program puts
\* it into results (lines 83, 88, 92, 96 and 121-122)
Return(kind) ==
    /\ bRet' = (bSymbols[bIdx] :> kind)
    /\ bResults' = Updated(bResults, bSymbols[bIdx], kind)
    /\ bIdx' = bIdx + 1
    /\ bPc' = "main"

\* lines 113-118 and 126: the symbols are the parts in upper case
Parse ==
    /\ bPc = "start"
    /\ bSymbols' = [i \in 1..Len(bArg) |-> str_upper(bArg[i])]
    /\ bPc' = "main"
    /\ UNCHANGED <<bArg, bIdx, bAlarm, bRet, bResults>>
    /\ BasicFrame

\* lines 120-121 and 127: the call for the next symbol begins
CallNext ==
    /\ bPc = "main"
    /\ bIdx <= Len(bSymbols)
    /\ bPc' = "arm"
    /\ UNCHANGED <<bArg, bSymbols, bIdx, bAlarm, bRet, bResults>>
    /\ BasicFrame

\* lines 43-44: the handler is installed and the alarm armed; signal.signal
\* raises outside the main thread, and line 94 turns that into an error record
Arm ==
    /\ bPc = "arm"
    /\ \/ /\ bAlarm' = bIdx
          /\ bPc' = "fetch"
          /\ UNCHANGED <<bIdx, bRet, bResults>>
       \/ /\ Return("error")
          /\ UNCHANGED bAlarm
    /\ UNCHANGED <<bArg, bSymbols>>
    /\ BasicFrame

\* lines 47-51: the provider answers or raises
Fetch ==
    /\ bPc = "fetch"
    /\ bPc' \in {"cancel", "on_error"}
    /\ UNCHANGED <<bArg, bSymbols, bIdx, bAlarm, bRet, bResults>>
    /\ BasicFrame

\* line 53: signal.alarm(0)
Cancel ==
    /\ bPc = "cancel"
    /\ bAlarm' = NoAlarm
    /\ bPc' = "build"
    /\ UNCHANGED <<bArg, bSymbols, bIdx, bRet, bResults>>
    /\ BasicFrame

\* lines 55-83: the result is built and returned, or a conversion raises
Build ==
    /\ bPc = "build"
    /\ \/ Return("data")
       \/ /\ bPc' = "on_error"
          /\ UNCHANGED <<bIdx, bRet, bResults>>
    /\ UNCHANGED <<bArg, bSymbols, bAlarm>>
    /\ BasicFrame

\* lines 85-88: except TimeoutException
OnTimeout ==
    /\ bPc = "on_timeout"
    /\ bAlarm' = NoAlarm
    /\ Return("timeout")
    /\ UNCHANGED <<bArg, bSymbols>>
    /\ BasicFrame

\* lines 89-92: except Exception
OnError ==
    /\ bPc = "on_error"
    /\ bAlarm' = OnErrorAlarm(bAlarm)
    /\ Return("error")
    /\ UNCHANGED <<bArg, bSymbols>>
    /\ BasicFrame

\* lines 34-35: the pending alarm goes off and timeout_handler raises
\* TimeoutException where the program is: inside the inner try it reaches
\* line 85; inside a handler or before the inner try it reaches line 94;
\* outside get_basic_stock_data it reaches line 133 and no result is printed
AlarmFires ==
    /\ bAlarm # NoAlarm
    /\ bPc \in {"arm", "fetch", "cancel", "build", "on_timeout", "on_error", "main"}
    /\ bAlarm' = NoAlarm
    /\ IF bPc \in {"fetch", "cancel", "build"}
       THEN /\ bPc' = "on_timeout"
            /\ UNCHANGED <<bIdx, bRet, bResults>>
       ELSE IF bPc \in {"arm", "on_timeout", "on_error"}
       THEN Return("error")
       ELSE /\ bPc' = "fatal"
            /\ UNCHANGED <<bIdx, bRet, bResults>>
    /\ UNCHANGED <<bArg, bSymbols>>
    /\ BasicFrame

\* lines 123, 130-131: every symbol is done and the results are printed
Output ==
    /\ bPc = "main"
    /\ bIdx > Len(bSymbols)
    /\ bPc' = "output"
    /\ UNCHANGED <<bArg, bSymbols, bIdx, bAlarm, bRet, bResults>>
    /\ BasicFrame

BasicNext ==
    \/ Parse
    \/ CallNext
    \/ Arm
    \/ Fetch
    \/ Cancel
    \/ Build
    \/ OnTimeout
    \/ OnError
    \/ AlarmFires
    \/ Output

BasicSpec == BasicInit /\ [][BasicNext]_vars

-----------------------------------------------------------------------------
(* C18 *)

\* the positions inside a call of get_basic_stock_data
InCall == {"fetch", "cancel", "build", "on_timeout", "on_error"}

\* C18: when get_basic_stock_data has returned, what it returned has exactly
\* one entry, keyed by the requested symbol and holding data or an error
\* record, and no alarm is pending; a pending alarm always belongs to the
\* call in progress, so no alarm goes off outside the call that armed it;
\* and the printed output has an entry for every requested symbol.
C18_OneEntryAndAlarmCancelled ==
    /\ (bPc \in {"main", "output"} /\ bIdx > 1) =>
           /\ DOMAIN bRet = {bSymbols[bIdx - 1]}
           /\ bRet[bSymbols[bIdx - 1]] \in EntryKinds
           /\ bResults[bSymbols[bIdx - 1]] = bRet[bSymbols[bIdx - 1]]
    /\ bPc \in {"main", "arm", "output"} => bAlarm = NoAlarm
    /\ bAlarm # NoAlarm => bAlarm = bIdx /\ bPc \in InCall
    /\ bPc # "fatal"
    /\ bPc = "output" =>
           /\ DOMAIN bResults = {str_upper(bArg[i]) : i \in 1..Len(bArg)}
           /\ \A s \in DOMAIN bResults : bResults[s] \in EntryKinds

\* a batch of two symbols is done: the first call timed out, the second
\* ended in an error record, and both have their entry
C18_Witness ==
    /\ bPc = "output"
    /\ bArg = <<<<"a">>, <<"b">>>>
    /\ bResults = (<<"A">> :> "timeout") @@ (<<"B">> :> "error")
    /\ bAlarm = NoAlarm

=============================================================================
